---- MODULE Spec2Model ----
(***************************************************************************)
(* A model of the MTProto client core:                                     *)
(*   - network/state.rs: the session State (message ids, sequence          *)
(*     numbers, time offset),                                              *)
(*   - network/connection/tcp_intermediate.rs: one request over the        *)
(*     intermediate TCP framing,                                           *)
(*   - examples/auth.rs: the steps of the authorization handshake.         *)
(*                                                                         *)
(* Fixed-width integers are little-endian byte sequences (least            *)
(* significant byte first): an i64/u64 is 8 bytes, an i32/u32 is 4 bytes,  *)
(* signed values in two's complement.  All arithmetic is done on the bytes *)
(* so that every value keeps the width it has in the program.              *)
(***************************************************************************)
EXTENDS Integers, Sequences, FiniteSets, TLC

(***************************************************************************)
(* Fixed-width arithmetic on little-endian byte sequences.  The bytes are  *)
(* added, shifted and compared in chunks of 24 and 16 bits, since the      *)
(* integers of the model checker have 32 bits.                             *)
(***************************************************************************)

Byte == 0..255

\* n (an integer of at most 32 bits, signed) as 4 little-endian bytes.
I32(n) ==
    <<n % 256, (n \div 256) % 256, (n \div 65536) % 256, (n \div 16777216) % 256>>

U32(n) == I32(n)

\* The upper half of a sign-extended value.
SignFill(neg) == IF neg THEN <<255, 255, 255, 255>> ELSE <<0, 0, 0, 0>>

\* n (an integer of at most 32 bits, signed) as 8 little-endian bytes, sign-extended.
I64(n) == I32(n) \o SignFill(n < 0)

\* The 64-bit value hi * 2^32 + lo, from its two 32-bit halves.
HiLo(hi, lo) == U32(lo) \o I32(hi)

\* The sign bit of a 4-byte or an 8-byte value.
IsNeg(a) == a[Len(a)] >= 128

\* The chunks of a value: bits 0..23, bits 24..47 and bits 48..63.
Lo24(a) == a[1] + 256 * a[2] + 65536 * a[3]
Mid24(a) == a[4] + 256 * a[5] + 65536 * a[6]
Hi16(a) == a[7] + 256 * a[8]

\* The 8 bytes of c1 + c2 * 2^24 + c3 * 2^48 modulo 2^64 (chunks may carry over).
Pack64(c1, c2, c3) ==
    LET d2 == c2 + c1 \div 16777216
        d3 == c3 + d2 \div 16777216
    IN  <<c1 % 256, (c1 \div 256) % 256, (c1 \div 65536) % 256,
          d2 % 256, (d2 \div 256) % 256, (d2 \div 65536) % 256,
          d3 % 256, (d3 \div 256) % 256>>

\* The 4 bytes of c1 + c2 * 2^24 modulo 2^32.
Pack32(c1, c2) ==
    LET d2 == c2 + c1 \div 16777216
    IN  <<c1 % 256, (c1 \div 256) % 256, (c1 \div 65536) % 256, d2 % 256>>

\* a + b modulo 2^64, modulo 2^32.
WrappingAdd64(a, b) ==
    Pack64(Lo24(a) + Lo24(b), Mid24(a) + Mid24(b), Hi16(a) + Hi16(b))

WrappingAdd32(a, b) == Pack32(Lo24(a) + Lo24(b), a[4] + b[4])

\* a - b modulo 2^64: a + (not b) + 1.
WrappingSub64(a, b) ==
    Pack64(Lo24(a) + (16777215 - Lo24(b)) + 1,
           Mid24(a) + (16777215 - Mid24(b)),
           Hi16(a) + (65535 - Hi16(b)))

\* Whether the unsigned 32-bit sum a + b does not fit in 32 bits.
UnsignedAddOverflows32(a, b) ==
    a[4] + b[4] + (Lo24(a) + Lo24(b)) \div 16777216 >= 256

\* Whether the signed 64-bit sum a + b does not fit in 64 bits.
SignedAddOverflows64(a, b) ==
    /\ IsNeg(a) = IsNeg(b)
    /\ IsNeg(WrappingAdd64(a, b)) # IsNeg(a)

\* a << 2 for a 64-bit a and a << 1 for a 32-bit a: the bits shifted out are lost.
Shl2(a) == Pack64(Lo24(a) * 4, Mid24(a) * 4, Hi16(a) * 4)
Shl1(a) == Pack32(Lo24(a) * 2, a[4] * 2)

\* a << 32 for a 64-bit a.
Shl32(a) == <<0, 0, 0, 0, a[1], a[2], a[3], a[4]>>

\* a >> 32 for a signed 64-bit a (arithmetic shift: the sign is kept).
Sar32(a) == <<a[5], a[6], a[7], a[8]>> \o SignFill(IsNeg(a))

RECURSIVE OrByte(_, _)
OrByte(x, y) ==
    IF x = 0 THEN y
    ELSE IF y = 0 THEN x
    ELSE (IF x % 2 = 1 \/ y % 2 = 1 THEN 1 ELSE 0) + 2 * OrByte(x \div 2, y \div 2)

\* a | b for 64-bit values.
BitOr(a, b) ==
    <<OrByte(a[1], b[1]), OrByte(a[2], b[2]), OrByte(a[3], b[3]), OrByte(a[4], b[4]),
      OrByte(a[5], b[5]), OrByte(a[6], b[6]), OrByte(a[7], b[7]), OrByte(a[8], b[8])>>

\* i64::from(an i32).
SignExtend(a) == a \o SignFill(IsNeg(a))

\* i64::from(a u32), and a u32 as usize.
ZeroExtend(a) == a \o <<0, 0, 0, 0>>

\* (an i64) as i32, (a usize) as u32: the low 32 bits.
Truncate32(a) == <<a[1], a[2], a[3], a[4]>>

\* Unsigned a < b for 64-bit values.
ULt64(a, b) ==
    \/ Hi16(a) < Hi16(b)
    \/ Hi16(a) = Hi16(b) /\ Mid24(a) < Mid24(b)
    \/ Hi16(a) = Hi16(b) /\ Mid24(a) = Mid24(b) /\ Lo24(a) < Lo24(b)

ULe64(a, b) == ~ULt64(b, a)

\* Unsigned a < b for 32-bit values.
ULt32(a, b) == a[4] < b[4] \/ (a[4] = b[4] /\ Lo24(a) < Lo24(b))

\* The top chunk of a signed 64-bit value, ordered as the values are.
SHi16(a) == (Hi16(a) + 32768) % 65536

\* Signed comparisons of 64-bit values.
SLt(a, b) ==
    \/ SHi16(a) < SHi16(b)
    \/ SHi16(a) = SHi16(b) /\ Mid24(a) < Mid24(b)
    \/ SHi16(a) = SHi16(b) /\ Mid24(a) = Mid24(b) /\ Lo24(a) < Lo24(b)

SLe(a, b) == ~SLt(b, a)
SGe(a, b) == ~SLt(a, b)
SGt(a, b) == SLt(b, a)

\* The low two bits of a are zero (a mod 4 = 0, also for a negative a).
Mod4Zero(a) == a[1] % 4 = 0

\* The low bit of a is one.
IsOdd(a) == a[1] % 2 = 1


(***************************************************************************)
(* network/state.rs: the session State.                                    *)
(***************************************************************************)

MessagePurpose == {"Content", "NonContent"}

ProtocolVersion == {"V1", "V2"}

\* The value of an operation that returns nothing, or that panicked.
None == <<>>

\* State::new(version); id is rand::random().
State_new(sid, version) ==
    [id           |-> sid,
     auth_raw_key |-> [i \in 1..256 |-> 0],
     time_offset  |-> I32(0),
     salt         |-> I64(0),
     seq_no       |-> U32(0),
     last_msg_id  |-> I64(0),
     version      |-> version]

\* Utc::now(): timestamp() is the i64 seconds, nanosecond() the u32 nanoseconds.
timestamp(now) == I64(now[1])
nanosecond(now) == U32(now[2])

\* The id computed from the clock alone (state.rs line 59), before it is
\* compared with last_msg_id.
clock_msg_id(time_offset, now) ==
    LET timestamp_server == WrappingAdd64(timestamp(now), SignExtend(time_offset))
        nano == ZeroExtend(nanosecond(now))
    IN  BitOr(Shl32(timestamp_server), Shl2(nano))

\* A faulty variant: the id of the clock is taken as it is, never
\* compared with last_msg_id
get_new_msg_id_unguarded(s, now, checks) ==
    LET computed == clock_msg_id(s.time_offset, now)
    IN  [state |-> [s EXCEPT !.last_msg_id = computed], ret |-> computed, panic |-> FALSE]

\* A faulty variant: last_msg_id > new_msg_id in place of >=
get_new_msg_id_strict(s, now, checks) ==
    LET computed == clock_msg_id(s.time_offset, now)
        bump     == SGt(s.last_msg_id, computed)
        new_msg_id == IF bump THEN WrappingAdd64(s.last_msg_id, I64(4)) ELSE computed
    IN  [state |-> [s EXCEPT !.last_msg_id = new_msg_id], ret |-> new_msg_id, panic |-> FALSE]

\* A faulty variant: the id returned is not stored in last_msg_id
get_new_msg_id_not_stored(s, now, checks) ==
    LET computed == clock_msg_id(s.time_offset, now)
        bump     == SGe(s.last_msg_id, computed)
        new_msg_id == IF bump THEN WrappingAdd64(s.last_msg_id, I64(4)) ELSE computed
    IN  [state |-> s, ret |-> new_msg_id, panic |-> FALSE]

\* State::get_new_msg_id.  checks: the build has overflow checks (a debug
\* build), so that an overflowing + panics; without them it wraps.
\* The result: the state after the call, the value returned, and whether the
\* call panicked (then nothing is returned and the state is as the panic left it).
get_new_msg_id(s, now, checks) ==
    LET computed == clock_msg_id(s.time_offset, now)
        bump     == SGe(s.last_msg_id, computed)
        overflow == bump /\ SignedAddOverflows64(s.last_msg_id, I64(4))
        new_msg_id == IF bump THEN WrappingAdd64(s.last_msg_id, I64(4)) ELSE computed
    IN  IF overflow /\ checks
        THEN [state |-> s, ret |-> None, panic |-> TRUE]
        ELSE [state |-> [s EXCEPT !.last_msg_id = new_msg_id],
              ret   |-> new_msg_id,
              panic |-> FALSE]

\* A faulty variant: the low half of correct_msg_id in place of the high half
update_time_offset_low_half(s, correct_msg_id, now) ==
    LET correct_timestamp == SignExtend(Truncate32(correct_msg_id))
        time_offset == Truncate32(WrappingSub64(correct_timestamp, timestamp(now)))
    IN  [state |-> [s EXCEPT !.time_offset = time_offset, !.last_msg_id = I64(0)],
         ret   |-> time_offset,
         panic |-> FALSE]

\* State::update_time_offset.  correct_timestamp and now.timestamp() are both
\* within 32 bits, so the i64 subtraction cannot overflow; `as i32` truncates.
\* A faulty variant: last_msg_id is left as it was
update_time_offset_keeps_last_msg_id(s, correct_msg_id, now) ==
    LET correct_timestamp == Sar32(correct_msg_id)
        time_offset == Truncate32(WrappingSub64(correct_timestamp, timestamp(now)))
    IN  [state |-> [s EXCEPT !.time_offset = time_offset],
         ret   |-> time_offset,
         panic |-> FALSE]

\* A faulty variant: the sequence counter is reset with last_msg_id
update_time_offset_resets_seq_no(s, correct_msg_id, now) ==
    LET correct_timestamp == Sar32(correct_msg_id)
        time_offset == Truncate32(WrappingSub64(correct_timestamp, timestamp(now)))
    IN  [state |-> [s EXCEPT !.time_offset = time_offset, !.last_msg_id = I64(0),
                             !.seq_no = U32(0)],
         ret   |-> time_offset,
         panic |-> FALSE]

\* A faulty variant: the cast to i32 saturates in place of truncating
update_time_offset_saturating(s, correct_msg_id, now) ==
    LET correct_timestamp == Sar32(correct_msg_id)
        difference == WrappingSub64(correct_timestamp, timestamp(now))
        time_offset == IF SLt(difference, <<0, 0, 0, 128, 255, 255, 255, 255>>)
                       THEN <<0, 0, 0, 128>>
                       ELSE IF SGt(difference, I64(2147483647))
                       THEN <<255, 255, 255, 127>>
                       ELSE Truncate32(difference)
    IN  [state |-> [s EXCEPT !.time_offset = time_offset, !.last_msg_id = I64(0)],
         ret   |-> time_offset,
         panic |-> FALSE]

update_time_offset(s, correct_msg_id, now) ==
    LET correct_timestamp == Sar32(correct_msg_id)
        time_offset == Truncate32(WrappingSub64(correct_timestamp, timestamp(now)))
    IN  [state |-> [s EXCEPT !.time_offset = time_offset, !.last_msg_id = I64(0)],
         ret   |-> time_offset,
         panic |-> FALSE]

\* A faulty variant: a NonContent call increments the counter too
next_seq_no_always_increments(s, purpose, checks) ==
    [state |-> [s EXCEPT !.seq_no = WrappingAdd32(s.seq_no, U32(1))],
     ret   |-> IF purpose = "Content" THEN WrappingAdd32(Shl1(s.seq_no), U32(1))
               ELSE Shl1(s.seq_no),
     panic |-> FALSE]

\* State::next_seq_no.  seq_no * 2 overflows u32 when the top bit of seq_no is
\* set, seq_no += 1 when seq_no is 0xFFFFFFFF: with overflow checks the first
\* overflowing operation panics, without them the value wraps.
next_seq_no(s, purpose, checks) ==
    LET mul_overflow == IsNeg(s.seq_no)
        doubled      == Shl1(s.seq_no)
        inc_overflow == UnsignedAddOverflows32(s.seq_no, U32(1))
    IN  IF purpose = "Content"
        THEN IF checks /\ mul_overflow
             THEN [state |-> s, ret |-> None, panic |-> TRUE]
             ELSE IF checks /\ inc_overflow
             THEN [state |-> s, ret |-> None, panic |-> TRUE]
             ELSE [state |-> [s EXCEPT !.seq_no = WrappingAdd32(s.seq_no, U32(1))],
                   ret   |-> WrappingAdd32(doubled, U32(1)),
                   panic |-> FALSE]
        ELSE IF checks /\ mul_overflow
             THEN [state |-> s, ret |-> None, panic |-> TRUE]
             ELSE [state |-> s, ret |-> doubled, panic |-> FALSE]

\* State::create_message: the message id first, then the sequence number, then
\* M::new, which returns a Result (new_ok: whether it returned Ok): <<"Ok", m>>
\* or <<"Err">>.  message_id and seq_no are the function's two locals.
create_message(s, purpose, now, checks, new_ok) ==
    LET a == get_new_msg_id(s, now, checks)
        b == next_seq_no(a.state, purpose, checks)
    IN  IF a.panic
        THEN [state |-> a.state, ret |-> None, panic |-> TRUE,
              message_id |-> None, seq_no |-> None]
        ELSE IF b.panic
        THEN [state |-> b.state, ret |-> None, panic |-> TRUE,
              message_id |-> a.ret, seq_no |-> None]
        ELSE [state |-> b.state,
              ret   |-> IF new_ok
                        THEN <<"Ok", [salt |-> s.salt, session_id |-> s.id,
                                      message_id |-> a.ret, seq_no |-> b.ret]>>
                        ELSE <<"Err">>,
              panic |-> FALSE,
              message_id |-> a.ret, seq_no |-> b.ret]

\* State::update_message_id: msg.set_message_id(self.get_new_msg_id()).
update_message_id(s, msg, now, checks) ==
    LET a == get_new_msg_id(s, now, checks)
    IN  [state |-> a.state,
         ret   |-> IF a.panic THEN None ELSE [msg EXCEPT !.message_id = a.ret],
         panic |-> a.panic]


(***************************************************************************)
(* The inputs the operations are tried on.                                 *)
(***************************************************************************)

\* The number of State operations in one run.
MaxOps == 3

\* Readings of the wall clock, <<seconds, nanoseconds>>: three instants, so
\* that between two calls the clock can stand still, advance or move back.
Clocks ==
    { <<1600000000, 250000000>>, <<1600000000, 999999999>>, <<1600000001, 0>> }

\* Server message ids given to update_time_offset: the clock's own second, a
\* second that no longer fits in 31 bits once the clock has advanced, and an
\* id with the top bit set.
CorrectMsgIds ==
    { HiLo(1600000000, 0), HiLo(2147483647, 1), HiLo(-268435456, 5) }

\* What State::new is given: the session id drawn by rand::random() and the
\* protocol version.
NewStateArgs == { <<I64(7), "V1">>, <<HiLo(-1, 5), "V2">> }

(***************************************************************************)
(* The state of the model.                                                 *)
(***************************************************************************)

VARIABLES
    state,            \* the State of the session
    overflow_checks,  \* the build panics on integer overflow (debug) or wraps (release)
    panicked,         \* an operation panicked: the thread is unwinding
    ops,              \* the number of State operations called so far
    last_call,        \* the latest operation: its name, arguments, the State before it, its result
    prev_call,        \* the operation before the latest: its name and result
    issued,           \* the message ids get_new_msg_id returned, in order
    issued_since,     \* those it returned since the latest update_time_offset
    seq_log,          \* the values next_seq_no returned, in order, with their purpose
    state_owner,      \* who holds the State: "caller", "request" or "dropped"
    conn_owner,       \* who holds the connection: "none" before connect, then the same
    is_first_request, \* ConnectionTcpIntermediate::is_first_request
    socket,           \* what was written to the socket: for each write_all the step, the
                      \* raw message of the request, the bytes written, and all or not
    pc,               \* the step the request future is at
    req,              \* the latest request: its arguments and locals
    outcome,          \* what the latest finished future resolved to
    requests,         \* the number of requests made so far
    completed,        \* the number of them whose future has resolved
    hs_pc,            \* the step the handshake of examples/auth.rs is at
    hs_trace,         \* the steps it was at before, in order
    session,          \* the session of the handshake
    nonce,            \* the nonce auth_step1 sent, once it did
    res_pq,           \* the ResPQ received, once it was
    server_dh_params, \* the Server_DH_Params received, once they were
    hs_work,          \* what auth_step2 has done, in order
    hs_result,        \* what the future of auth resolved to
    hs_pending,       \* the error of the future auth returned, until it is polled
    tl_pc,            \* what was done with the vector: made, serialized, deserialized
    tl_value,         \* the Vector or BareVector made of elements
    tl_bytes,         \* what the writer holds after it was serialized
    tl_result         \* what deserializing those bytes returned

state_vars == <<state, overflow_checks, panicked, ops, last_call, prev_call,
                issued, issued_since, seq_log>>
conn_vars == <<state_owner, conn_owner, is_first_request, socket, pc, req, outcome,
               requests, completed>>
auth_vars == <<hs_pc, hs_trace, session, nonce, res_pq, server_dh_params, hs_work,
               hs_result, hs_pending>>
tl_vars == <<tl_pc, tl_value, tl_bytes, tl_result>>
vars == <<state_vars, conn_vars, auth_vars, tl_vars>>

NoCall == [op |-> "none", args |-> <<>>, pre |-> None, ret |-> None]

\* What every State operation records.
Record(op, args, r, ids, seqs) ==
    /\ state' = r.state
    /\ panicked' = r.panic
    /\ ops' = ops + 1
    /\ last_call' = [op |-> op, args |-> args, pre |-> state, ret |-> r.ret]
    /\ prev_call' = [op |-> last_call.op, ret |-> last_call.ret]
    /\ issued' = issued \o ids
    /\ issued_since' = IF op = "update_time_offset" THEN <<>> ELSE issued_since \o ids
    /\ seq_log' = seq_log \o seqs
    /\ UNCHANGED overflow_checks

\* The State is called directly by the code that holds it: no connection takes part.
Call(op, args, r, ids, seqs) ==
    /\ Record(op, args, r, ids, seqs)
    /\ UNCHANGED <<conn_vars, auth_vars, tl_vars>>

CanCall == ~panicked /\ ops < MaxOps /\ state_owner = "caller"

Call_get_new_msg_id ==
    /\ CanCall
    /\ \E now \in Clocks :
        \E r \in {get_new_msg_id(state, now, overflow_checks)} :
            Call("get_new_msg_id", <<now>>, r,
                   IF r.panic THEN <<>> ELSE <<r.ret>>, <<>>)

Call_update_message_id ==
    /\ CanCall
    /\ \E now \in Clocks :
        \E r \in {update_message_id(state, [salt |-> state.salt, session_id |-> state.id,
                                            message_id |-> I64(0), seq_no |-> U32(0)],
                                    now, overflow_checks)} :
            Call("update_message_id", <<now>>, r,
                   IF r.panic THEN <<>> ELSE <<r.ret.message_id>>, <<>>)

Call_next_seq_no ==
    /\ CanCall
    /\ \E purpose \in MessagePurpose :
        \E r \in {next_seq_no(state, purpose, overflow_checks)} :
            Call("next_seq_no", <<purpose>>, r, <<>>,
                   IF r.panic THEN <<>> ELSE <<[purpose |-> purpose, value |-> r.ret]>>)

Call_create_message ==
    /\ CanCall
    /\ \E now \in Clocks, purpose \in MessagePurpose, new_ok \in BOOLEAN :
        \E r \in {create_message(state, purpose, now, overflow_checks, new_ok)} :
            Call("create_message", <<now, purpose>>, r,
                   IF r.message_id = None THEN <<>> ELSE <<r.message_id>>,
                   IF r.seq_no = None THEN <<>>
                   ELSE <<[purpose |-> purpose, value |-> r.seq_no]>>)

Call_update_time_offset ==
    /\ CanCall
    /\ \E correct_msg_id \in CorrectMsgIds, now \in Clocks :
        \E r \in {update_time_offset(state, correct_msg_id, now)} :
            Call("update_time_offset", <<correct_msg_id, now>>, r, <<>>, <<>>)

\* No operation was called yet.
NoHistory ==
    /\ panicked = FALSE
    /\ ops = 0
    /\ last_call = NoCall
    /\ prev_call = [op |-> "none", ret |-> None]
    /\ issued = <<>>
    /\ issued_since = <<>>
    /\ seq_log = <<>>

NoRequest == [message_type |-> "none", payload |-> <<>>, size |-> I64(0), data |-> <<>>,
              first |-> FALSE, pre |-> None, written |-> 0, incoming |-> <<>>,
              len |-> U32(0), response |-> <<>>, trace |-> <<>>, error |-> None,
              stream |-> None]

\* No connection was made yet; the caller holds the State.
NoConnection ==
    /\ state_owner = "caller"
    /\ conn_owner = "none"
    /\ is_first_request = FALSE
    /\ socket = <<>>
    /\ pc = "idle"
    /\ req = NoRequest
    /\ outcome = None
    /\ requests = 0
    /\ completed = 0

\* auth was not called yet.
NoHandshake ==
    /\ hs_pc = "Init"
    /\ hs_trace = <<>>
    /\ session = [sent |-> <<>>, auth_raw_key |-> [i \in 1..256 |-> 0], salt |-> I64(0)]
    /\ nonce = None
    /\ res_pq = None
    /\ server_dh_params = None
    /\ hs_work = <<>>
    /\ hs_result = None
    /\ hs_pending = None

\* No vector was made yet.
NoVector ==
    /\ tl_pc = "none"
    /\ tl_value = None
    /\ tl_bytes = None
    /\ tl_result = None

\* State::new, in either build.
Init ==
    /\ \E a \in NewStateArgs : state = State_new(a[1], a[2])
    /\ overflow_checks \in BOOLEAN
    /\ NoHistory
    /\ NoConnection
    /\ NoHandshake
    /\ NoVector

Next ==
    \/ Call_get_new_msg_id
    \/ Call_update_message_id
    \/ Call_next_seq_no
    \/ Call_create_message
    \/ Call_update_time_offset

Spec == Init /\ [][Next]_vars


(***************************************************************************)
(* update_time_offset on its own, given server message ids whose upper     *)
(* half is any second of the 32 bits: 0, the second of the clock, 2^31 - 1,*)
(* 2^31, 3_000_000_000, the two seconds 2^31 - 1 and 2^31 after that of    *)
(* the clock, 0xF0000000 and 0xFFFFFFFF.                                   *)
(***************************************************************************)

AnyMsgIds ==
    { HiLo(0, 0), HiLo(1600000000, 0), HiLo(2147483647, 1),
      <<7, 0, 0, 0, 0, 0, 0, 128>>, <<0, 0, 0, 0, 0, 94, 208, 178>>,
      <<3, 0, 0, 0, 255, 15, 94, 223>>, <<0, 0, 0, 0, 0, 16, 94, 223>>,
      HiLo(-268435456, 5), <<255, 255, 255, 255, 255, 255, 255, 255>> }

Call_update_time_offset_any ==
    /\ CanCall
    /\ \E correct_msg_id \in AnyMsgIds, now \in Clocks :
        \E r \in {update_time_offset(state, correct_msg_id, now)} :
            Call("update_time_offset", <<correct_msg_id, now>>, r, <<>>, <<>>)

NextTimeOffset == Call_update_time_offset_any

SpecTimeOffset == Init /\ [][NextTimeOffset]_vars


(***************************************************************************)
(* A State that has sent many content messages: the sequence counter is a  *)
(* value that 2^31 - 1 and more create_message(Content) calls lead to.  A  *)
(* build with overflow checks panics at the first call with the counter at *)
(* 2^31, so that the counter goes no further there.                        *)
(***************************************************************************)

SeqNoStarts ==
    { U32(0), U32(2147483647), <<0, 0, 0, 128>>, <<254, 255, 255, 255>>,
      <<255, 255, 255, 255>> }

InitLongSession ==
    /\ \E a \in NewStateArgs, n \in SeqNoStarts :
           state = [State_new(a[1], a[2]) EXCEPT !.seq_no = n]
    /\ overflow_checks \in BOOLEAN
    /\ overflow_checks => ~ULt32(<<0, 0, 0, 128>>, state.seq_no)
    /\ NoHistory
    /\ NoConnection
    /\ NoHandshake
    /\ NoVector

SpecLongSession == InitLongSession /\ [][Next]_vars

(***************************************************************************)
(* network/connection/tcp_intermediate.rs: one connection in intermediate  *)
(* mode, and the requests made on it.  A request takes the connection and  *)
(* the State by value and returns a future; the future resolves to the     *)
(* connection, the State and the response, or to an error alone.  The      *)
(* steps of the future are the actions below.  What the message types and  *)
(* the serializer do (MessageCommon::new, to_raw, size_hint, to_writer,    *)
(* parse_response) is an input of the request: each of them fails or not,  *)
(* and to_raw gives the bytes of the raw message and their number.         *)
(***************************************************************************)

MaxRequests == 2

Preamble == <<238, 238, 238, 238>>

\* 0xff_ff_ff_ff, as a usize of 64 bits.
MaxSize == <<255, 255, 255, 255, 0, 0, 0, 0>>

\* A raw message and the size size_hint gives for it.
RawMessage(payload) == [payload |-> payload, size |-> ZeroExtend(U32(Len(payload)))]

\* A raw message of 2^32 bytes; its bytes are not written out.
HugeMessage == [payload |-> <<>>, size |-> <<0, 0, 0, 0, 1, 0, 0, 0>>]

RawMessages ==
    { RawMessage(<<>>), RawMessage(<<1, 2, 3, 4, 5>>), HugeMessage }

\* The step of impl_request and perform_request that fails before the future
\* is made, if any.
Failures == { "none", "M::new", "to_raw", "size_hint", "to_writer" }

\* What parse_response makes of the bytes of a response.
ParseResults == { "Ok", "LengthMismatch", "AuthKeyIdMismatch" }

\* What a server may send in answer to a request whose frame is data: nothing,
\* a frame without a body, a frame with a body, a frame cut short, and the
\* frame of the request sent back.
ServerStreams(data) ==
    { <<>>, <<0, 0, 0, 0>>, <<2, 0, 0, 0, 9, 8>>, <<2, 0, 0, 0, 9>>, data }

\* LittleEndian::read_u32, as a number.
read_u32(bytes) ==
    bytes[1] + 256 * bytes[2] + 65536 * bytes[3] + 16777216 * bytes[4]

\* tokio_io::io::read_exact of len bytes (a u32, as usize) from what the socket
\* has to give: the bytes read and the bytes left, or an error when the
\* stream ends before.
read_exact(stream, len) ==
    IF ULt32(U32(Len(stream)), len)
    THEN <<"Err", "Io">>
    ELSE <<"Ok", SubSeq(stream, 1, read_u32(len)),
                 SubSeq(stream, read_u32(len) + 1, Len(stream))>>

\* A faulty variant: is_first_request is left as it was
perform_request_keeps_flag(raw, fail, first_request) ==
    IF fail \in {"to_raw", "size_hint"}
    THEN [ret |-> <<"Err", fail>>, data |-> <<>>, is_first_request |-> first_request]
    ELSE IF ~ULe64(raw.size, MaxSize)
    THEN [ret |-> <<"Err", "MessageTooLong">>, data |-> <<>>,
          is_first_request |-> first_request]
    ELSE IF fail = "to_writer"
    THEN [ret |-> <<"Err", fail>>, data |-> <<>>, is_first_request |-> first_request]
    ELSE [ret |-> <<"Ok">>, data |-> Truncate32(raw.size) \o raw.payload,
          is_first_request |-> first_request]

\* A faulty variant: the size is not compared with 0xff_ff_ff_ff
perform_request_unchecked(raw, fail, first_request) ==
    IF fail \in {"to_raw", "size_hint", "to_writer"}
    THEN [ret |-> <<"Err", fail>>, data |-> <<>>, is_first_request |-> first_request]
    ELSE [ret |-> <<"Ok">>, data |-> Truncate32(raw.size) \o raw.payload,
          is_first_request |-> FALSE]

\* A faulty variant: the length is written big-endian
perform_request_big_endian(raw, fail, first_request) ==
    IF fail \in {"to_raw", "size_hint"}
    THEN [ret |-> <<"Err", fail>>, data |-> <<>>, is_first_request |-> first_request]
    ELSE IF ~ULe64(raw.size, MaxSize)
    THEN [ret |-> <<"Err", "MessageTooLong">>, data |-> <<>>,
          is_first_request |-> first_request]
    ELSE IF fail = "to_writer"
    THEN [ret |-> <<"Err", fail>>, data |-> <<>>, is_first_request |-> first_request]
    ELSE [ret |-> <<"Ok">>,
          data |-> <<raw.size[4], raw.size[3], raw.size[2], raw.size[1]>> \o raw.payload,
          is_first_request |-> FALSE]

\* perform_request, up to the future it returns: to_raw, size_hint, the size
\* against 0xff_ff_ff_ff, the buffer of 4 + size bytes with the size in its
\* first four (little-endian) and the raw message after them, and the choice
\* of the first step, which clears *is_first_request.  ret is Ok when the
\* future of the three steps was made, and the error of a failed future if not.
perform_request(raw, fail, first_request) ==
    IF fail \in {"to_raw", "size_hint"}
    THEN [ret |-> <<"Err", fail>>, data |-> <<>>, is_first_request |-> first_request]
    ELSE IF ~ULe64(raw.size, MaxSize)
    THEN [ret |-> <<"Err", "MessageTooLong">>, data |-> <<>>,
          is_first_request |-> first_request]
    ELSE IF fail = "to_writer"
    THEN [ret |-> <<"Err", fail>>, data |-> <<>>, is_first_request |-> first_request]
    ELSE [ret |-> <<"Ok">>, data |-> Truncate32(raw.size) \o raw.payload,
          is_first_request |-> FALSE]

\* tryf! and bailf!: the function returns futures::future::err of the error,
\* and the error is delivered when the future is polled. The socket is dropped
\* when the function returns; the State is dropped with it when impl_request
\* itself returns; when perform_request does the State is in the closure of
\* the future impl_request makes of it, until the poll.
bailf(state_to) ==
    /\ pc' = "err"
    /\ conn_owner' = "dropped"
    /\ state_owner' = state_to
    /\ outcome' = None
    /\ UNCHANGED completed

\* The future resolved to an error: the connection and the State that the
\* request took are dropped with it; a State that perform_request only had a
\* reference to stays where it is.
Fail(error) ==
    /\ outcome' = <<"Err", error>>
    /\ completed' = completed + 1
    /\ pc' = "idle"
    /\ conn_owner' = "dropped"
    /\ state_owner' = IF state_owner = "request" THEN "dropped" ELSE state_owner

\* ConnectFuture::poll, when the socket is connected or failed to connect.
ConnectFuture_poll ==
    /\ conn_owner = "none"
    /\ \/ /\ conn_owner' = "caller"
          /\ is_first_request' = TRUE
          /\ outcome' = <<"Ok", "connect">>
       \/ /\ outcome' = <<"Err", "Io">>
          /\ UNCHANGED <<conn_owner, is_first_request>>
    /\ UNCHANGED <<state_vars, auth_vars, tl_vars, state_owner, socket, pc, req, requests,
                   completed>>

\* What create_message has done when it returns or panics: the message id is
\* taken first, the sequence number second, and M::new is given both.
create_message_trace(r) ==
    (IF r.message_id = None THEN <<>> ELSE <<"get_new_msg_id">>)
    \o (IF r.seq_no = None THEN <<>> ELSE <<"next_seq_no">>)
    \o (IF r.panic \/ r.ret[1] = "Err" THEN <<>> ELSE <<"M::new">>)

\* What perform_request has done when it returns: to_raw, size_hint, and the
\* buffer with the length and the raw message.
perform_request_trace(fail, p) ==
    (IF fail = "to_raw" THEN <<>> ELSE <<"to_raw">>)
    \o (IF fail \in {"to_raw", "size_hint"} THEN <<>> ELSE <<"size_hint">>)
    \o (IF p.ret[1] = "Err" THEN <<>> ELSE <<"data">>)

\* A faulty variant: the connection and the State are borrowed, so that a
\* request can be made while the future of another one holds them.
borrows_self_and_state ==
    /\ conn_owner \in {"caller", "request"}
    /\ state_owner \in {"caller", "request"}

\* impl_request takes self and the State by value: the caller must own both,
\* and owns neither until the future gives them back.
takes_self_and_state ==
    /\ conn_owner = "caller"
    /\ state_owner = "caller"
    /\ pc = "idle"

\* impl_request, up to the future it returns: create_message on the State it
\* took, then perform_request on the message with the is_first_request of the
\* connection it took. When either fails the future is one made of the error,
\* not polled yet.
impl_request(message_type) ==
    /\ ~panicked
    /\ takes_self_and_state
    /\ requests < MaxRequests
    /\ \E now \in Clocks, purpose \in MessagePurpose, raw \in RawMessages,
          fail \in Failures :
        \E r \in {create_message(state, purpose, now, overflow_checks, fail # "M::new")} :
        \E p \in {perform_request(raw, fail, is_first_request)} :
            /\ Record("create_message", <<now, purpose>>, r,
                      IF r.message_id = None THEN <<>> ELSE <<r.message_id>>,
                      IF r.seq_no = None THEN <<>>
                      ELSE <<[purpose |-> purpose, value |-> r.seq_no]>>)
            /\ requests' = requests + 1
            /\ UNCHANGED <<socket, auth_vars, tl_vars>>
            /\ IF r.panic
               THEN /\ conn_owner' = "dropped"
                    /\ state_owner' = "dropped"
                    /\ req' = [NoRequest EXCEPT !.message_type = message_type,
                                                !.pre = state,
                                                !.trace = create_message_trace(r)]
                    /\ UNCHANGED <<is_first_request, pc, outcome, completed>>
               ELSE IF r.ret[1] = "Err"
               THEN /\ bailf("dropped")
                    /\ req' = [NoRequest EXCEPT !.message_type = message_type,
                                                !.pre = state,
                                                !.trace = create_message_trace(r),
                                                !.error = "M::new"]
                    /\ UNCHANGED is_first_request
               ELSE /\ req' = [message_type |-> message_type,
                               payload |-> IF fail = "to_raw" THEN <<>> ELSE raw.payload,
                               size |-> IF fail \in {"to_raw", "size_hint"} THEN I64(0)
                                        ELSE raw.size,
                               data |-> p.data, first |-> is_first_request,
                               pre |-> state, written |-> Len(socket),
                               incoming |-> <<>>, len |-> U32(0), response |-> <<>>,
                               trace |-> create_message_trace(r)
                                         \o perform_request_trace(fail, p),
                               error |-> IF p.ret[1] = "Err" THEN p.ret[2] ELSE None,
                               stream |-> None]
                    /\ is_first_request' = p.is_first_request
                    /\ IF p.ret[1] = "Err"
                       THEN bailf("request")
                       ELSE /\ pc' = "init"
                            /\ conn_owner' = "request"
                            /\ state_owner' = "request"
                            /\ outcome' = None
                            /\ UNCHANGED completed

request_plain == impl_request("MessagePlain")

request == impl_request("Message")

\* The first poll of a future made of an error: the error is delivered, and
\* the closure that holds the State is dropped unrun.
FutureResult_poll ==
    /\ pc = "err"
    /\ Fail(req.error)
    /\ UNCHANGED <<state_vars, auth_vars, tl_vars, is_first_request, socket, req,
                   requests>>

\* A faulty variant: the future of the write completes with nothing written
write_all_nothing(what, bytes, then) ==
    /\ pc' = then
    /\ req' = [req EXCEPT !.trace = Append(@, what)]
    /\ UNCHANGED <<socket, conn_owner, state_owner, outcome, completed>>

\* An earlier poll of this write_all wrote some of its bytes and returned
\* NotReady: they are the latest write on the socket.
write_pending(what) ==
    /\ Len(socket) > 0
    /\ socket[Len(socket)].what = what
    /\ socket[Len(socket)].request = requests
    /\ ~socket[Len(socket)].complete

\* WriteAll::pos, the number of the bytes written by the polls before.
write_pos(what) == IF write_pending(what) THEN Len(socket[Len(socket)].bytes) ELSE 0

\* The socket with the first k of the bytes of this write_all on it.
written(what, bytes, k) ==
    Append(IF write_pending(what) THEN SubSeq(socket, 1, Len(socket) - 1) ELSE socket,
           [what |-> what, request |-> requests, of |-> req.payload,
            bytes |-> SubSeq(bytes, 1, k), complete |-> k = Len(bytes)])

\* WriteAll::poll: it writes from pos on for as long as the socket takes
\* bytes. All the bytes are written; or the socket would block after more
\* of them and the poll returns NotReady, to go on from there when polled
\* again; or the write fails after some of them. (A poll that returns
\* NotReady with nothing more written changes nothing.)
write_all(what, bytes, then) ==
    \/ /\ socket' = written(what, bytes, Len(bytes))
       /\ pc' = then
       /\ req' = [req EXCEPT !.trace = Append(@, what)]
       /\ UNCHANGED <<conn_owner, state_owner, outcome, completed>>
    \/ \E k \in (write_pos(what) + 1)..(Len(bytes) - 1) :
           /\ socket' = written(what, bytes, k)
           /\ UNCHANGED <<pc, req, conn_owner, state_owner, outcome, completed>>
    \/ \E k \in write_pos(what)..(Len(bytes) - 1) :
           /\ socket' = written(what, bytes, k)
           /\ Fail("Io")
           /\ UNCHANGED req

\* Step1Future: the preamble is written by the first request, nothing by the others.
Step1Future_poll ==
    /\ pc = "init"
    /\ IF req.first
       THEN write_all("init", Preamble, "request")
       ELSE /\ pc' = "request"
            /\ UNCHANGED <<socket, req, conn_owner, state_owner, outcome, completed>>
    /\ UNCHANGED <<state_vars, auth_vars, tl_vars, is_first_request, requests>>

\* The second step: the buffer is written.
write_request ==
    /\ pc = "request"
    /\ write_all("request", req.data, "read_len")
    /\ UNCHANGED <<state_vars, auth_vars, tl_vars, is_first_request, requests>>

\* The third step: the four bytes of the length are read from what the server
\* sent,
read_len ==
    /\ pc = "read_len"
    /\ \E stream \in ServerStreams(req.data) :
           \E r \in {read_exact(stream, U32(4))} :
               IF r[1] = "Ok"
               THEN /\ req' = [req EXCEPT !.len = r[2], !.incoming = r[3],
                                         !.trace = Append(@, "read_len"),
                                         !.stream = stream]
                    /\ pc' = "read_body"
                    /\ UNCHANGED <<conn_owner, state_owner, outcome, completed>>
               ELSE /\ Fail("Io")
                    /\ req' = [req EXCEPT !.stream = stream]
    /\ UNCHANGED <<state_vars, auth_vars, tl_vars, is_first_request, socket, requests>>

\* and then as many bytes as they say.
read_body ==
    /\ pc = "read_body"
    /\ \E r \in {read_exact(req.incoming, req.len)} :
           IF r[1] = "Ok"
           THEN /\ req' = [req EXCEPT !.response = r[2], !.incoming = r[3],
                                     !.trace = Append(@, "read_body")]
                /\ pc' = "parse"
                /\ UNCHANGED <<conn_owner, state_owner, outcome, completed>>
           ELSE /\ Fail("Io")
                /\ UNCHANGED req
    /\ UNCHANGED <<state_vars, auth_vars, tl_vars, is_first_request, socket, requests>>

\* The closure of impl_request: parse_response takes the bytes read, and the
\* connection is made again of the socket and the is_first_request that
\* perform_request left.
parse_response ==
    /\ pc = "parse"
    /\ \E result \in ParseResults :
           /\ IF result = "Ok"
              THEN /\ outcome' = <<"Ok", "response">>
                   /\ completed' = completed + 1
                   /\ pc' = "idle"
                   /\ conn_owner' = "caller"
                   /\ state_owner' = "caller"
              ELSE Fail(result)
           /\ req' = [req EXCEPT !.len = U32(0), !.incoming = <<>>, !.response = <<>>,
                                 !.trace = @ \o (IF result = "Ok"
                                                 THEN <<"parse_response", "into_body">>
                                                 ELSE <<>>)]
    /\ UNCHANGED <<state_vars, auth_vars, tl_vars, is_first_request, socket, requests>>

NextConnection ==
    \/ ConnectFuture_poll
    \/ request_plain
    \/ request
    \/ FutureResult_poll
    \/ Step1Future_poll
    \/ write_request
    \/ read_len
    \/ read_body
    \/ parse_response

SpecConnection == Init /\ [][NextConnection]_vars

(***************************************************************************)
(* examples/auth.rs: the handshake.  auth chains the futures of the three  *)
(* steps; each step runs when the future before it resolved, and an error  *)
(* of any of them resolves the future of auth.  The session and the        *)
(* functions of mtproto::rpc (Session::request, asymm::decompose_pq,       *)
(* asymm::find_first_key_fail_safe) are taken as their names and the       *)
(* design say: a request is sent and answered or fails, pq is split in     *)
(* p < q, the first fingerprint of the server with a known key is used.    *)
(***************************************************************************)

Nonces == { 11, 22 }

ServerNonces == { 33, 44 }

\* The eight bytes of a small number, big endian.
PQ8(n) == <<0, 0, 0, 0, 0, 0, n \div 256, n % 256>>

\* pq of the server, a byte string of its choosing: eight bytes of two primes
\* (15), of a prime (13), of a number that is another one read little endian
\* (256), nine bytes, one byte, and none.
PQs == { PQ8(15), PQ8(13), PQ8(256), PQ8(15) \o <<7>>, <<15>>, <<>> }

\* BigEndian::read_u64: the first eight bytes of the buffer, the most
\* significant first; it panics on a buffer shorter than eight bytes. The
\* upper five bytes of every pq in PQs are zero.
RECURSIVE BigEndian_value(_)
BigEndian_value(bytes) ==
    IF bytes = <<>> THEN 0
    ELSE BigEndian_value(SubSeq(bytes, 1, Len(bytes) - 1)) * 256 + bytes[Len(bytes)]

BigEndian_read_u64(buf) ==
    IF Len(buf) < 8
    THEN [panic |-> TRUE, ret |-> None]
    ELSE [panic |-> FALSE, ret |-> BigEndian_value(SubSeq(buf, 1, 8))]

KnownFingerprints == { 100, 200 }

FingerprintLists == { <<100>>, <<300, 200>>, <<300>> }

ResPQs ==
    [nonce : Nonces, server_nonce : ServerNonces, pq : PQs,
     server_public_key_fingerprints : FingerprintLists]

ServerDHParams == [nonce : Nonces, server_nonce : ServerNonces]

\* The fallible steps of auth_step2 that do not depend on the response.
Step2Failures == { "none", "to_bytes", "KNOWN_RAW_KEYS", "encrypt" }

\* Session::new: nothing was sent; the auth key and the salt are those of a new
\* State, all zero.
Session_new == [sent |-> <<>>, auth_raw_key |-> [i \in 1..256 |-> 0], salt |-> I64(0)]

\* Session::request, as far as the session goes: the request is sent.
Session_request(s, body) == [s EXCEPT !.sent = Append(@, body)]

\* asymm::decompose_pq.
decompose_pq(pq) ==
    LET factors == {p \in 2..(pq - 1) : pq % p = 0}
    IN  IF factors = {} THEN <<"Err", "decompose_pq">>
        ELSE LET p == CHOOSE x \in factors : \A y \in factors : x <= y
             IN  <<"Ok", p, pq \div p>>

\* asymm::find_first_key_fail_safe.
find_first_key_fail_safe(fingerprints) ==
    LET known == {i \in 1..Len(fingerprints) : fingerprints[i] \in KnownFingerprints}
    IN  IF known = {} THEN <<"Err", "NoKnownFingerprint">>
        ELSE <<"Ok", fingerprints[CHOOSE i \in known : \A j \in known : i <= j]>>

\* auth_step1: the request req_pq with the nonce drawn.
auth_step1(s, n) ==
    [session |-> Session_request(s, [name |-> "req_pq", nonce |-> n]), nonce |-> n]

\* A faulty variant: the nonce of the response is not compared
auth_step2_unchecked(s, response, n, fail) ==
    LET pq_u64 == BigEndian_read_u64(response.pq)
        pq == decompose_pq(pq_u64.ret)
        key == find_first_key_fail_safe(response.server_public_key_fingerprints)
    IN  IF pq_u64.panic
        THEN [ret |-> None, panic |-> TRUE, work |-> <<>>, session |-> s]
        ELSE IF pq[1] = "Err"
        THEN [ret |-> pq, panic |-> FALSE, work |-> <<"decompose_pq">>, session |-> s]
        ELSE IF fail \in {"to_bytes", "KNOWN_RAW_KEYS"}
        THEN [ret |-> <<"Err", fail>>, panic |-> FALSE, work |-> <<"decompose_pq">>,
              session |-> s]
        ELSE IF key[1] = "Err"
        THEN [ret |-> key, panic |-> FALSE,
              work |-> <<"decompose_pq", "find_first_key_fail_safe">>, session |-> s]
        ELSE IF fail = "encrypt"
        THEN [ret |-> <<"Err", fail>>, panic |-> FALSE,
              work |-> <<"decompose_pq", "find_first_key_fail_safe", "encrypt">>,
              session |-> s]
        ELSE [ret |-> <<"Ok">>, panic |-> FALSE,
              work |-> <<"decompose_pq", "find_first_key_fail_safe", "encrypt",
                         "request">>,
              session |-> Session_request(s,
                  [name |-> "req_DH_params", nonce |-> response.nonce,
                   server_nonce |-> response.server_nonce, p |-> pq[2], q |-> pq[3],
                   public_key_fingerprint |-> key[2]])]

\* auth_step2, up to the future it returns: the nonce of the response against
\* the nonce sent, then BigEndian::read_u64 of pq, which panics on fewer than
\* eight bytes, then decompose_pq, the inner data and its bytes, the
\* fingerprints of the known keys, find_first_key_fail_safe, encrypt, and the
\* request req_DH_params.
auth_step2(s, response, n, fail) ==
    LET pq_u64 == BigEndian_read_u64(response.pq)
        pq == decompose_pq(pq_u64.ret)
        key == find_first_key_fail_safe(response.server_public_key_fingerprints)
    IN  IF n # response.nonce
        THEN [ret |-> <<"Err", "NonceMismatch", n, response.nonce>>, panic |-> FALSE,
              work |-> <<>>, session |-> s]
        ELSE IF pq_u64.panic
        THEN [ret |-> None, panic |-> TRUE, work |-> <<>>, session |-> s]
        ELSE IF pq[1] = "Err"
        THEN [ret |-> pq, panic |-> FALSE, work |-> <<"decompose_pq">>, session |-> s]
        ELSE IF fail \in {"to_bytes", "KNOWN_RAW_KEYS"}
        THEN [ret |-> <<"Err", fail>>, panic |-> FALSE, work |-> <<"decompose_pq">>,
              session |-> s]
        ELSE IF key[1] = "Err"
        THEN [ret |-> key, panic |-> FALSE,
              work |-> <<"decompose_pq", "find_first_key_fail_safe">>, session |-> s]
        ELSE IF fail = "encrypt"
        THEN [ret |-> <<"Err", fail>>, panic |-> FALSE,
              work |-> <<"decompose_pq", "find_first_key_fail_safe", "encrypt">>,
              session |-> s]
        ELSE [ret |-> <<"Ok">>, panic |-> FALSE,
              work |-> <<"decompose_pq", "find_first_key_fail_safe", "encrypt",
                         "request">>,
              session |-> Session_request(s,
                  [name |-> "req_DH_params", nonce |-> response.nonce,
                   server_nonce |-> response.server_nonce, p |-> pq[2], q |-> pq[3],
                   public_key_fingerprint |-> key[2]])]

\* auth_step3: nothing is done with the parameters.
auth_step3(s, params) == [ret |-> <<"Ok">>, session |-> s]

\* The handshake goes on to a step.
Goto(step) ==
    /\ hs_pc' = step
    /\ hs_trace' = Append(hs_trace, hs_pc)

\* The future of auth resolved to an error.
HandshakeFailed(error) ==
    /\ Goto("Failed")
    /\ hs_result' = error

\* The unwinding of a panic in a poll takes the future of auth with it: it
\* resolves to nothing.
HandshakePanicked ==
    /\ Goto("Panicked")
    /\ UNCHANGED hs_result

\* auth, up to the future it returns: fetch_app_info, Session::new, connect.
\* When fetch_app_info fails the future returned is futures::future::err of
\* the error, which nothing has polled yet.
auth ==
    /\ hs_pc = "Init"
    /\ hs_pending = None
    /\ \/ /\ session' = Session_new
          /\ Goto("Connecting")
          /\ UNCHANGED hs_pending
       \/ /\ hs_pending' = <<"Err", "fetch_app_info">>
          /\ UNCHANGED <<session, hs_pc, hs_trace>>
    /\ UNCHANGED <<state_vars, conn_vars, tl_vars, nonce, res_pq, server_dh_params, hs_work,
                   hs_result>>

\* The first poll of the future that auth made of an error: the error is
\* delivered.
auth_poll ==
    /\ hs_pc = "Init"
    /\ hs_pending # None
    /\ HandshakeFailed(hs_pending)
    /\ hs_pending' = None
    /\ UNCHANGED <<state_vars, conn_vars, tl_vars, session, nonce, res_pq, server_dh_params,
                   hs_work>>

\* The session is connected, or not: auth_step1 runs on the connection.
connected ==
    /\ hs_pc = "Connecting"
    /\ \/ \E n \in Nonces :
              \E r \in {auth_step1(session, n)} :
                  /\ nonce' = r.nonce
                  /\ session' = r.session
                  /\ Goto("AwaitingResPQ")
                  /\ UNCHANGED hs_result
       \/ /\ HandshakeFailed(<<"Err", "connect">>)
          /\ UNCHANGED <<nonce, session>>
    /\ UNCHANGED <<state_vars, conn_vars, tl_vars, res_pq, server_dh_params, hs_work,
                   hs_pending>>

\* The request of step 1 is answered, or failed: auth_step2 runs on the answer.
received_ResPQ ==
    /\ hs_pc = "AwaitingResPQ"
    /\ \/ \E response \in ResPQs, fail \in Step2Failures :
              \E r \in {auth_step2(session, response, nonce, fail)} :
                  /\ res_pq' = response
                  /\ hs_work' = hs_work \o r.work
                  /\ session' = r.session
                  /\ IF r.panic
                     THEN HandshakePanicked
                     ELSE IF r.ret[1] = "Ok"
                     THEN Goto("AwaitingDhParams") /\ UNCHANGED hs_result
                     ELSE HandshakeFailed(r.ret)
       \/ /\ HandshakeFailed(<<"Err", "request">>)
          /\ UNCHANGED <<res_pq, hs_work, session>>
    /\ UNCHANGED <<state_vars, conn_vars, tl_vars, nonce, server_dh_params, hs_pending>>

\* The request of step 2 is answered, or failed: auth_step3 runs on the answer.
received_Server_DH_Params ==
    /\ hs_pc = "AwaitingDhParams"
    /\ \/ \E params \in ServerDHParams :
              \E r \in {auth_step3(session, params)} :
                  /\ server_dh_params' = params
                  /\ session' = r.session
                  /\ Goto("Established")
                  /\ hs_result' = r.ret
       \/ /\ HandshakeFailed(<<"Err", "request">>)
          /\ UNCHANGED <<server_dh_params, session>>
    /\ UNCHANGED <<state_vars, conn_vars, tl_vars, nonce, res_pq, hs_work, hs_pending>>

NextAuth ==
    \/ auth
    \/ auth_poll
    \/ connected
    \/ received_ResPQ
    \/ received_Server_DH_Params

SpecAuth == Init /\ [][NextAuth]_vars


(***************************************************************************)
(* The framing of tcp_intermediate on its own: perform_request makes the   *)
(* buffer of a payload, and the receive path reads those bytes.            *)
(***************************************************************************)

MaxPayloadLen == 2

FramingPayloads ==
    UNION { [1..n -> {0, 238, 255}] : n \in 0..MaxPayloadLen }
    \cup { <<1, 2, 3, 4, 5>>, Preamble, [i \in 1..256 |-> i % 256],
           [i \in 1..300 |-> 255] }

\* A connection that has made no request: what ConnectFuture::poll gives.
FreshConnection ==
    /\ \E a \in NewStateArgs : state = State_new(a[1], a[2])
    /\ NoHistory
    /\ state_owner = "caller"
    /\ conn_owner = "caller"
    /\ is_first_request = TRUE
    /\ socket = <<>>
    /\ pc = "idle"
    /\ req = NoRequest
    /\ outcome = <<"Ok", "connect">>
    /\ requests = 0
    /\ completed = 0

\* The clock and the purpose of the request a used connection has made.
UsedAt == <<1600000000, 250000000>>

UsedFor == "Content"

\* A connection that has made one request, of an empty payload, which was
\* answered with an empty frame: the preamble and the frame are on the
\* socket, and the State has made the message.
UsedConnection ==
    \E a \in NewStateArgs, now \in {UsedAt}, purpose \in {UsedFor} :
        \E r \in {create_message(State_new(a[1], a[2]), purpose, now, overflow_checks,
                                  TRUE)} :
        \E p \in {perform_request(RawMessage(<<>>), "none", TRUE)} :
            /\ state = r.state
            /\ panicked = FALSE
            /\ ops = 1
            /\ last_call = [op |-> "create_message", args |-> <<now, purpose>>,
                            pre |-> State_new(a[1], a[2]), ret |-> r.ret]
            /\ prev_call = [op |-> "none", ret |-> None]
            /\ issued = <<r.message_id>>
            /\ issued_since = <<r.message_id>>
            /\ seq_log = << [purpose |-> purpose, value |-> r.seq_no] >>
            /\ state_owner = "caller"
            /\ conn_owner = "caller"
            /\ is_first_request = p.is_first_request
            /\ socket = << [what |-> "init", request |-> 1, of |-> <<>>,
                            bytes |-> Preamble, complete |-> TRUE],
                           [what |-> "request", request |-> 1, of |-> <<>>,
                            bytes |-> p.data, complete |-> TRUE] >>
            /\ pc = "idle"
            /\ req = [message_type |-> "MessagePlain", payload |-> <<>>,
                      size |-> RawMessage(<<>>).size, data |-> p.data, first |-> TRUE,
                      pre |-> State_new(a[1], a[2]), written |-> 0, incoming |-> <<>>,
                      len |-> U32(0), response |-> <<>>,
                      trace |-> create_message_trace(r) \o perform_request_trace("none", p)
                                \o <<"init", "request", "read_len", "read_body",
                                     "parse_response", "into_body">>,
                      error |-> None, stream |-> <<0, 0, 0, 0>>]
            /\ outcome = <<"Ok", "response">>
            /\ requests = 1
            /\ completed = 1

\* A connection on which perform_request can be called: one that has made no
\* request yet, or one that has.
InitFraming ==
    /\ overflow_checks \in BOOLEAN
    /\ FreshConnection \/ UsedConnection
    /\ NoHandshake
    /\ NoVector

\* perform_request on a payload, with the socket and the is_first_request of
\* the connection and a reference to the State: the buffer is made, the flag
\* is cleared, and the future holds the socket. The steps of the future are
\* those of a request: the preamble when the flag was set, the buffer, the
\* four bytes of the length, the body.
frame_payload ==
    /\ pc = "idle"
    /\ conn_owner = "caller"
    /\ \E payload \in FramingPayloads :
           \E p \in {perform_request(RawMessage(payload), "none", is_first_request)} :
               /\ req' = [NoRequest EXCEPT !.payload = payload,
                                           !.size = RawMessage(payload).size,
                                           !.data = p.data,
                                           !.first = is_first_request,
                                           !.written = Len(socket),
                                           !.trace = perform_request_trace("none", p)]
               /\ is_first_request' = p.is_first_request
    /\ pc' = "init"
    /\ conn_owner' = "request"
    /\ outcome' = None
    /\ requests' = requests + 1
    /\ UNCHANGED <<state_vars, auth_vars, tl_vars, state_owner, socket, completed>>

NextFraming ==
    \/ frame_payload
    \/ Step1Future_poll
    \/ write_request
    \/ read_len
    \/ read_body

SpecFraming == InitFraming /\ [][NextFraming]_vars


(***************************************************************************)
(* tl::vector: Vector and BareVector of a bare element type of four bytes  *)
(* (an int), written with a Writer and read with a Reader.                 *)
(***************************************************************************)

MaxVecLen == 2

\* 0x1cb5c415, little-endian.
TYPE_ID == <<21, 196, 181, 28>>

\* The ints the vectors are made of; one of them has the bytes of TYPE_ID.
Elements == { U32(0), U32(1), TYPE_ID, <<255, 255, 255, 255>> }

ElementVecs == UNION { [1..n -> Elements] : n \in 0..MaxVecLen }

VectorKinds == { "Vector", "BareVector" }

bare_type(kind) == kind = "BareVector"

type_id(v) == IF v.kind = "Vector" THEN TYPE_ID ELSE None

\* Writer::write_generic of each element in turn: a bare int is its four bytes.
RECURSIVE write_items(_)
write_items(elements) ==
    IF elements = <<>> THEN <<>>
    ELSE Head(elements) \o write_items(Tail(elements))

\* SendSlice::serialize: the count as u32, little-endian, then the elements.
SendSlice_serialize(elements) ==
    <<"Ok", U32(Len(elements)) \o write_items(elements)>>

\* Vector::serialize.
Vector_serialize(v) == SendSlice_serialize(v.elements)

\* BareVector::serialize: unimplemented!().
BareVector_serialize(v) == <<"Panic", "not yet implemented">>

\* Reader::read_generic or read_bare, count times: an int is four bytes.
RECURSIVE read_items(_, _)
read_items(bytes, count) ==
    IF count = 0 THEN <<>>
    ELSE <<SubSeq(bytes, 1, 4)>> \o read_items(SubSeq(bytes, 5, Len(bytes)), count - 1)

\* The count and then count elements, or an error when the bytes end before.
read_count_and_items(kind, bytes) ==
    IF Len(bytes) < 4 THEN <<"Err", "Io">>
    ELSE LET count == SubSeq(bytes, 1, 4)
             rest  == SubSeq(bytes, 5, Len(bytes))
         IN  IF ULt32(U32(Len(rest) \div 4), count) THEN <<"Err", "Io">>
             ELSE <<"Ok", [kind |-> kind,
                           elements |-> read_items(rest, read_u32(count))]>>

\* Vector::deserialize.
Vector_deserialize(bytes) == read_count_and_items("Vector", bytes)

\* Vector::deserialize_boxed.
Vector_deserialize_boxed(id, bytes) ==
    IF id # TYPE_ID THEN <<"Err", "InvalidData">>
    ELSE Vector_deserialize(bytes)

\* BareVector::deserialize.
BareVector_deserialize(bytes) == read_count_and_items("BareVector", bytes)

\* BareVector::deserialize_boxed.
BareVector_deserialize_boxed(id, bytes) == <<"Err", "PrimitiveAsPolymorphic">>

\* Writer::write_generic of a vector: a boxed value is written after its
\* constructor id, a bare value as it is.
write_generic(v) ==
    IF bare_type(v.kind) THEN BareVector_serialize(v)
    ELSE LET r == Vector_serialize(v)
         IN  IF r[1] = "Ok" THEN <<"Ok", type_id(v) \o r[2]>> ELSE r

\* Reader::read_generic of a vector: a boxed value is read after its
\* constructor id, a bare value as it is.
read_generic(kind, bytes) ==
    IF bare_type(kind) THEN BareVector_deserialize(bytes)
    ELSE IF Len(bytes) < 4 THEN <<"Err", "Io">>
    ELSE Vector_deserialize_boxed(SubSeq(bytes, 1, 4), SubSeq(bytes, 5, Len(bytes)))

\* Vector::from_elements and BareVector::from_elements.
from_elements ==
    /\ tl_pc = "none"
    /\ \E kind \in VectorKinds, elements \in ElementVecs :
           tl_value' = [kind |-> kind, elements |-> elements]
    /\ tl_pc' = "made"
    /\ UNCHANGED <<state_vars, conn_vars, auth_vars, tl_bytes, tl_result>>

\* The vector is written to a writer that holds nothing yet.
serialize ==
    /\ tl_pc = "made"
    /\ \E r \in {write_generic(tl_value)} :
           IF r[1] = "Ok"
           THEN /\ tl_bytes' = r[2]
                /\ tl_pc' = "serialized"
           ELSE /\ tl_pc' = "panicked"
                /\ UNCHANGED tl_bytes
    /\ UNCHANGED <<state_vars, conn_vars, auth_vars, tl_value, tl_result>>

\* A vector of the same type is read from a reader of the bytes written.
deserialize ==
    /\ tl_pc = "serialized"
    /\ tl_result' = read_generic(tl_value.kind, tl_bytes)
    /\ tl_pc' = "deserialized"
    /\ UNCHANGED <<state_vars, conn_vars, auth_vars, tl_value, tl_bytes>>

\* What a peer may send for a vector: a constructor id (boxed only) that is
\* TYPE_ID or another, a count that is the number of the elements that follow,
\* less, or more, the elements, and after them nothing or half an element;
\* or bytes that end before the count.
ReceivedIds == { TYPE_ID, <<21, 196, 181, 29>> }

ReceivedCounts == { U32(0), U32(1), U32(2), U32(3), <<255, 255, 255, 255>> }

ReceivedTails == { <<>>, <<7, 7>> }

Received ==
    [kind : VectorKinds, id : ReceivedIds, count : ReceivedCounts,
     elements : ElementVecs, tail : ReceivedTails, cut : {FALSE}]
    \cup [kind : VectorKinds, id : ReceivedIds, count : {U32(0)},
          elements : {<<>>}, tail : ReceivedTails, cut : {TRUE}]

ReceivedBytes(v) ==
    (IF bare_type(v.kind) THEN <<>> ELSE v.id)
    \o (IF v.cut THEN <<>> ELSE v.count \o write_items(v.elements))
    \o v.tail

\* A vector is read from a reader of bytes that a peer sent.
deserialize_received ==
    /\ tl_pc = "none"
    /\ \E v \in Received :
           /\ tl_value' = v
           /\ tl_bytes' = ReceivedBytes(v)
           /\ tl_result' = read_generic(v.kind, ReceivedBytes(v))
    /\ tl_pc' = "received"
    /\ UNCHANGED <<state_vars, conn_vars, auth_vars>>

NextVector ==
    \/ from_elements
    \/ serialize
    \/ deserialize
    \/ deserialize_received

SpecVector == Init /\ [][NextVector]_vars


(***************************************************************************)
(* Message ids.                                                            *)
(***************************************************************************)

\* C1: when get_new_msg_id is called twice in direct succession and returns a
\* and then b, b > a and b mod 4 = 0, whatever clock each call read.
C1_SuccessiveIdsIncrease ==
    (/\ prev_call.op = "get_new_msg_id"
     /\ last_call.op = "get_new_msg_id"
     /\ ~panicked)
    => /\ SGt(last_call.ret, prev_call.ret)
       /\ Mod4Zero(last_call.ret)

\* Two calls in direct succession, the second of which read a clock that gives
\* no greater id than the first call returned (the clock stood still or moved back).
C1_Witness ==
    /\ prev_call.op = "get_new_msg_id"
    /\ last_call.op = "get_new_msg_id"
    /\ ~panicked
    /\ SLe(clock_msg_id(last_call.pre.time_offset, last_call.args[1]), prev_call.ret)

StrictlyIncreasing(ids) ==
    \A i, j \in 1..Len(ids) : i < j => SGt(ids[j], ids[i])

\* C2, as stated: of all the ids one State returned, over any sequence of
\* operations (update_time_offset among them), each is greater than every
\* earlier one.
C2_IdsIncreaseAcrossOffsetUpdates == StrictlyIncreasing(issued)

\* C2, amended: of the ids one State returned since its latest
\* update_time_offset (or since its creation), each is greater than every
\* earlier one.
C2_IdsIncreaseSinceOffsetUpdate == StrictlyIncreasing(issued_since)

\* Three ids returned with no update_time_offset between them, by different
\* operations.
C2_Witness ==
    /\ Len(issued_since) = 3
    /\ prev_call.op = "create_message"
    /\ last_call.op = "update_message_id"

(***************************************************************************)
(* Sequence numbers.                                                       *)
(***************************************************************************)

\* The index of the first Content entry of log after index i, or 0.
NextContent(log, i) ==
    LET later == {j \in (i + 1)..Len(log) : log[j].purpose = "Content"}
    IN  IF later = {} THEN 0 ELSE CHOOSE j \in later : \A k \in later : j <= k

\* C3: from counter 0, the values next_seq_no returns for Content are odd and
\* strictly increasing, and a value it returns for NonContent is the value the
\* next Content call returns, minus one.
C3_SeqNoPattern ==
    /\ \A i \in 1..Len(seq_log) :
           seq_log[i].purpose = "Content" => IsOdd(seq_log[i].value)
    /\ \A i, j \in 1..Len(seq_log) :
           (i < j /\ seq_log[i].purpose = "Content" /\ seq_log[j].purpose = "Content")
           => ULt32(seq_log[i].value, seq_log[j].value)
    /\ \A i \in 1..Len(seq_log) :
           (seq_log[i].purpose = "NonContent" /\ NextContent(seq_log, i) # 0)
           => WrappingAdd32(seq_log[i].value, U32(1))
                  = seq_log[NextContent(seq_log, i)].value

\* A Content call, then a NonContent call, then a Content call.
C3_Witness ==
    /\ Len(seq_log) = 3
    /\ seq_log[1].purpose = "Content"
    /\ seq_log[2].purpose = "NonContent"
    /\ seq_log[3].purpose = "Content"

\* C4, as stated: no operation leaves the sequence counter below what it was
\* before the operation, for any value of the counter.
C4_CounterNeverDecreases ==
    last_call.op # "none" => ~ULt32(state.seq_no, last_call.pre.seq_no)

(***************************************************************************)
(* The time offset.                                                        *)
(***************************************************************************)

\* The call of scenario 2: update_time_offset(0x5F5E1000_00000000) with the
\* wall clock at 1_600_000_000 s.
C5_Call ==
    /\ last_call.op = "update_time_offset"
    /\ last_call.args[1] = HiLo(1600000000, 0)
    /\ last_call.args[2][1] = 1600000000

\* C5, as stated: the call sets time_offset to -16_777_216 and returns it.
C5_OffsetIsMinus16777216 ==
    C5_Call => /\ state.time_offset = I32(-16777216)
               /\ last_call.ret = I32(-16777216)

\* C5, amended: the call sets time_offset to 0x5F5E1000 - 1_600_000_000 = 0
\* and returns it (0x5F5E1000 is 1_600_000_000).
C5_OffsetIsZero ==
    C5_Call => /\ state.time_offset = I32(0)
               /\ last_call.ret = I32(0)

\* The call of scenario 2, made by a State whose offset was not 0 before.
C5_Witness ==
    /\ C5_Call
    /\ last_call.pre.time_offset # I32(0)

(***************************************************************************)
(* The connection.                                                         *)
(***************************************************************************)

RECURSIVE Wire(_)
\* All the bytes of a log of writes, in the order they were written.
Wire(log) == IF log = <<>> THEN <<>> ELSE log[1].bytes \o Wire(Tail(log))

\* C6: the preamble EE EE EE EE is the first thing written to the socket of a
\* connection and is written before no later frame; is_first_request is true
\* after connect and false on the connection a request returns; two requests
\* with an empty payload put EE EE EE EE 00 00 00 00 and then 00 00 00 00 on
\* the wire.
C6_PreambleOnce ==
    /\ \A i \in 1..Len(socket) :
           IF i = 1
           THEN socket[i].what = "init" /\ (socket[i].complete => socket[i].bytes = Preamble)
           ELSE socket[i].what = "request" /\ socket[i].bytes # Preamble
    /\ (conn_owner = "caller" /\ requests = 0) => is_first_request
    /\ (conn_owner = "caller" /\ requests > 0) => ~is_first_request
    /\ (/\ Len(socket) = 3
        /\ \A i \in 1..3 : socket[i].complete /\ socket[i].of = <<>>)
       => Wire(socket) = <<238, 238, 238, 238, 0, 0, 0, 0, 0, 0, 0, 0>>

\* Two requests with an empty payload were made on the connection and the
\* second one returned it.
C6_Witness ==
    /\ Len(socket) = 3
    /\ \A i \in 1..3 : socket[i].complete /\ socket[i].of = <<>>
    /\ requests = 2
    /\ conn_owner = "caller"
    /\ outcome = <<"Ok", "response">>

\* C7: every frame written whole is the number of bytes of the payload, as
\* four bytes little-endian, and then the payload; a request whose message has
\* a size above 0xFFFFFFFF has a future made of MessageTooLong, which resolves
\* to it when it is polled and never gets to a write, and has written nothing
\* to the socket.
C7_FrameAndTooLong ==
    /\ \A i \in 1..Len(socket) :
           (socket[i].what = "request" /\ socket[i].complete)
           => socket[i].bytes = U32(Len(socket[i].of)) \o socket[i].of
    /\ (requests > 0 /\ ULt64(MaxSize, req.size))
       => /\ req.error = "MessageTooLong"
          /\ pc \in {"err", "idle"}
          /\ pc = "idle" <=> outcome = <<"Err", "MessageTooLong">>
          /\ Len(socket) = req.written

\* A request of a message of 2^32 bytes, made on a connection that wrote the
\* preamble and a frame of five bytes of payload before, has resolved.
C7_Witness ==
    /\ requests = 2
    /\ pc = "idle"
    /\ ULt64(MaxSize, req.size)
    /\ Len(socket) = 2
    /\ socket[2].complete
    /\ socket[2].bytes = <<5, 0, 0, 0, 1, 2, 3, 4, 5>>

\* The latest request resolved to an error.
RequestFailed ==
    /\ requests > 0
    /\ pc = "idle"
    /\ Len(outcome) = 2
    /\ outcome[1] = "Err"

\* C8, as stated: after a request that failed, at whatever step, last_msg_id
\* of the State is what it was before the request.
C8_FailedRequestConsumesNoId ==
    RequestFailed => state.last_msg_id = req.pre.last_msg_id

\* C9, as stated: after a request that failed with a framing or envelope error
\* (unknown auth key id apart), the caller holds the connection and the State.
C9_CallerKeepsConnectionAndState ==
    (RequestFailed /\ outcome[2] \in {"MessageTooLong", "LengthMismatch"})
    => (conn_owner = "caller" /\ state_owner = "caller")

(***************************************************************************)
(* The handshake.                                                          *)
(***************************************************************************)

\* A ResPQ was received, and its nonce is not the nonce sent.
C10_Mismatch == hs_pc \notin {"Init", "Connecting", "AwaitingResPQ"}
                /\ res_pq # None
                /\ res_pq.nonce # nonce

\* C10: when the ResPQ carries a nonce that is not the nonce sent, the
\* handshake fails with NonceMismatch(nonce sent, nonce received), auth_step2
\* has done none of its work (no decompose_pq, no key found, no second
\* request), and the session is as step 1 left it.
C10_NonceMismatchFirst ==
    C10_Mismatch
    => /\ hs_pc = "Failed"
       /\ hs_result = <<"Err", "NonceMismatch", nonce, res_pq.nonce>>
       /\ hs_work = <<>>
       /\ session = [Session_new EXCEPT !.sent = << [name |-> "req_pq", nonce |-> nonce] >>]

\* A ResPQ with another nonce was received, whose pq has two factors and whose
\* fingerprints name a known key: the work of step 2 would have gone through.
C10_Witness ==
    /\ C10_Mismatch
    /\ res_pq.pq = PQ8(15)
    /\ res_pq.server_public_key_fingerprints = <<300, 200>>

\* The place of a step in the order of the handshake.
StepRank(step) ==
    CASE step = "Init" -> 0
      [] step = "Connecting" -> 1
      [] step = "AwaitingResPQ" -> 2
      [] step = "AwaitingDhParams" -> 3
      [] step = "AwaitingDhGenResult" -> 4
      [] step \in {"Established", "Failed", "Panicked"} -> 5

\* The steps the handshake was at and is at, in order.
HandshakePath == Append(hs_trace, hs_pc)

\* The handshake went forward only, each step after the response of the step
\* before it: no step comes twice in the path, the second request is in the
\* session only when a ResPQ was received, and success only when
\* Server_DH_Params were.
C11_ForwardOnly ==
    /\ \A i, j \in 1..Len(HandshakePath) :
           i < j => StepRank(HandshakePath[i]) < StepRank(HandshakePath[j])
    /\ Len(session.sent) > 1 => res_pq # None
    /\ StepRank(hs_pc) > 2 /\ hs_pc \notin {"Failed", "Panicked"} => Len(session.sent) > 1
    /\ hs_pc = "Established" => server_dh_params # None

\* A response was received whose nonce is not the nonce sent, or whose server
\* nonce is not the server nonce of the ResPQ.
AnyNonceMismatch ==
    \/ res_pq # None /\ res_pq.nonce # nonce
    \/ /\ server_dh_params # None
       /\ \/ server_dh_params.nonce # nonce
          \/ server_dh_params.server_nonce # res_pq.server_nonce

\* C11, as stated: the handshake goes forward only through Init, AwaitingResPQ,
\* AwaitingDhParams, AwaitingDhGenResult to Established or Failed, each step
\* after the response of the step before, and every nonce mismatch and every
\* failed request ends it in Failed.
C11_ForwardAndFailFast ==
    /\ C11_ForwardOnly
    /\ AnyNonceMismatch => hs_pc = "Failed"
    /\ (hs_result # None /\ hs_result[1] = "Err") => hs_pc = "Failed"

\* C12, as stated: the auth key of the session is all zero until the handshake
\* ends, and when it has ended in Established the key is no longer all zero
\* and the salt is set.
C12_EstablishedHasKey ==
    IF hs_pc = "Established"
    THEN /\ \E i \in 1..256 : session.auth_raw_key[i] # 0
         /\ session.salt # I64(0)
    ELSE \A i \in 1..256 : session.auth_raw_key[i] = 0

\* The frames of the requests are on the socket one request after the other,
\* and nothing is written after a write that failed.
WritesInOrder ==
    /\ \A i, j \in 1..Len(socket) : i < j => socket[i].request <= socket[j].request
    /\ \A i \in 1..(Len(socket) - 1) : socket[i].complete

\* C13: at most one request is outstanding on a connection: while the future
\* of a request has not resolved the caller holds neither the connection nor
\* the State (the future holds them, or what is left of them when it is one
\* made of an error), no other request is started, and the writes of two
\* requests are never interleaved on the socket.
C13_OneOutstanding ==
    /\ requests - completed \in {0, 1}
    /\ ~panicked => (requests - completed = 1 <=> pc # "idle")
    /\ pc \notin {"idle", "err"} => conn_owner = "request" /\ state_owner = "request"
    /\ pc = "err" => conn_owner = "dropped" /\ state_owner \in {"request", "dropped"}
    /\ WritesInOrder

\* A second request is in flight after the first one completed, and both have
\* written to the socket.
C13_Witness ==
    /\ requests = 2
    /\ completed = 1
    /\ pc = "read_len"
    /\ \E i, j \in 1..Len(socket) : socket[i].request = 1 /\ socket[j].request = 2

\* C14, as stated: a Vector or BareVector that is serialized and then
\* deserialized is the vector it was: serializing succeeds, and
\* deserializing the bytes returns the same elements.
C14_VectorRoundTrip ==
    /\ tl_pc # "panicked"
    /\ tl_pc = "deserialized" => tl_result = <<"Ok", tl_value>>

\* What does hold: a boxed Vector is written as TYPE_ID, the count and the
\* elements, and those bytes are read back as the same Vector.
C14_BoxedVectorRoundTrip ==
    (tl_pc \in {"serialized", "deserialized", "panicked"} /\ tl_value.kind = "Vector")
    => /\ tl_pc # "panicked"
       /\ tl_bytes = TYPE_ID \o U32(Len(tl_value.elements)) \o write_items(tl_value.elements)
       /\ tl_pc = "deserialized" => tl_result = <<"Ok", tl_value>>

\* The server has answered the request with the bytes of its frame, and the
\* request has not returned its response yet.
Echoed ==
    /\ requests > 0
    /\ req.stream # None
    /\ req.stream = req.data
    /\ ~(pc = "idle" /\ outcome = <<"Ok", "response">>)

\* C15: when the bytes that perform_request wrote for a payload come back,
\* the receive path of perform_request (four bytes of length, little-endian,
\* then as many bytes) does not fail; the length read is the number of the
\* bytes of the payload, the body read is the payload, and nothing is left,
\* on a connection that has made no request and on one that has; and those
\* bytes are what is on the socket after the preamble, if any.
C15_FramingRoundTrip ==
    Echoed
    => /\ pc \in {"read_body", "parse"}
       /\ req.len = U32(Len(req.payload))
       /\ pc = "read_body" => req.incoming = req.payload
       /\ pc = "parse" => req.response = req.payload /\ req.incoming = <<>>
       /\ socket[Len(socket)].bytes = req.data
       /\ socket[Len(socket)].complete
       /\ req.first => socket[Len(socket) - 1].bytes = Preamble

\* A payload longer than 255 bytes was framed on a fresh connection, written
\* and read back.
C15_Witness ==
    /\ Echoed
    /\ pc = "parse"
    /\ req.first
    /\ Len(req.payload) = 300
    /\ req.response = req.payload
    /\ Len(socket) = 2

\* C17: get_new_msg_id returns the id of the clock, ((seconds + time_offset)
\* << 32) | (nanoseconds << 2), when that is greater than last_msg_id, and
\* last_msg_id + 4 when it is not, and last_msg_id is what it returned; a
\* fresh State at 1_600_000_000 s + 250 ms returns (1_600_000_000 << 32) |
\* (250_000_000 << 2), and, called again at the same nanosecond, that + 4.
C17_IdOfClockOrLastPlus4 ==
    (last_call.op = "get_new_msg_id" /\ ~panicked)
    => LET pre == last_call.pre
           now == last_call.args[1]
           of_clock == clock_msg_id(pre.time_offset, now)
       IN  /\ SGt(of_clock, pre.last_msg_id) => last_call.ret = of_clock
           /\ ~SGt(of_clock, pre.last_msg_id)
                  => last_call.ret = WrappingAdd64(pre.last_msg_id, I64(4))
           /\ state.last_msg_id = last_call.ret
           /\ now = <<1600000000, 250000000>> /\ pre.time_offset = I32(0)
                  => /\ pre.last_msg_id = I64(0)
                         => last_call.ret = HiLo(1600000000, 1000000000)
                     /\ pre.last_msg_id = HiLo(1600000000, 1000000000)
                         => last_call.ret = HiLo(1600000000, 1000000004)

\* The two calls of the example, one after the other on a fresh State.
C17_Witness ==
    /\ ops = 2
    /\ prev_call.op = "get_new_msg_id"
    /\ prev_call.ret = HiLo(1600000000, 1000000000)
    /\ last_call.op = "get_new_msg_id"
    /\ last_call.args[1] = <<1600000000, 250000000>>
    /\ last_call.ret = HiLo(1600000000, 1000000004)

\* The upper half of a message id as a signed number.
SignedUpperHalf(id) ==
    id[5] + 256 * id[6] + 65536 * id[7]
    + 16777216 * (IF id[8] >= 128 THEN id[8] - 256 ELSE id[8])

\* C18: update_time_offset(correct_msg_id) sets time_offset to
\* (correct_msg_id >> 32) - now_seconds, sets last_msg_id to zero and returns
\* the new time_offset; the get_new_msg_id that follows returns the id of the
\* clock with the new offset (or 4 when that id is not above zero), whatever
\* id was issued before the update.
C18_OffsetSetAndIdsRestart ==
    /\ last_call.op = "update_time_offset"
       => /\ state.time_offset =
                 I32(SignedUpperHalf(last_call.args[1]) - last_call.args[2][1])
          /\ state.last_msg_id = I64(0)
          /\ last_call.ret = state.time_offset
    /\ (prev_call.op = "update_time_offset" /\ last_call.op = "get_new_msg_id"
        /\ ~panicked)
       => LET of_clock == clock_msg_id(prev_call.ret, last_call.args[1])
          IN  /\ last_call.pre.last_msg_id = I64(0)
              /\ last_call.ret = IF SGt(of_clock, I64(0)) THEN of_clock ELSE I64(4)

\* An id was issued, the offset was updated to one that puts the clock below
\* that id, and the next id is the id of the clock, below the id issued before.
C18_Witness ==
    /\ ops = 3
    /\ prev_call.op = "update_time_offset"
    /\ last_call.op = "get_new_msg_id"
    /\ Len(issued) = 2
    /\ SLt(issued[2], issued[1])
    /\ issued[2] = clock_msg_id(state.time_offset, last_call.args[1])

\* The upper half of a message id without its top bit, and the top bit.
UpperHalfLow31(id) == id[5] + 256 * id[6] + 65536 * id[7] + 16777216 * (id[8] % 128)

UpperHalfTopBit(id) == id[8] >= 128

\* (the upper half, unsigned) - secs fits in an i32: it is never below -2^31,
\* and it is below 2^31 when the top bit is clear or the rest is below secs.
DifferenceFits(id, secs) == ~UpperHalfTopBit(id) \/ UpperHalfLow31(id) - secs < 0

\* (the upper half, unsigned) - secs, when it fits.
UnsignedDifference(id, secs) ==
    IF UpperHalfTopBit(id)
    THEN (UpperHalfLow31(id) - secs + 1073741824) + 1073741824
    ELSE UpperHalfLow31(id) - secs

\* C19: for every correct_msg_id, those with the top bit set included, the
\* time_offset that update_time_offset stores is (the upper 32 bits, unsigned)
\* - now_seconds whenever that difference fits in an i32.
C19_UnsignedSeconds ==
    (/\ last_call.op = "update_time_offset"
     /\ DifferenceFits(last_call.args[1], last_call.args[2][1]))
    => state.time_offset =
           I32(UnsignedDifference(last_call.args[1], last_call.args[2][1]))

\* An id whose upper half is 2^31, at 1_600_000_000 s: the offset is 547_483_648.
C19_Witness ==
    /\ last_call.op = "update_time_offset"
    /\ UpperHalfTopBit(last_call.args[1])
    /\ DifferenceFits(last_call.args[1], last_call.args[2][1])
    /\ last_call.args[2][1] = 1600000000
    /\ state.time_offset = I32(547483648)

\* C20, as stated: the handshake ends successfully only when the nonce and
\* the server nonce of the Server_DH_Params are the nonce sent and the server
\* nonce of the ResPQ.
C20_DhParamsNoncesVerified ==
    hs_pc = "Established"
    => /\ server_dh_params.nonce = nonce
       /\ server_dh_params.server_nonce = res_pq.server_nonce

\* The steps of a request that succeeds, in order; "init" is the write of the
\* preamble and "request" the write of the buffer.
RequestSteps(first) ==
    <<"get_new_msg_id", "next_seq_no", "M::new", "to_raw", "size_hint", "data">>
    \o (IF first THEN <<"init">> ELSE <<>>)
    \o <<"request", "read_len", "read_body", "parse_response", "into_body">>

IsPrefix(s, t) == Len(s) <= Len(t) /\ s = SubSeq(t, 1, Len(s))

\* C21: the steps of a request are taken in the order message id, sequence
\* number, envelope, frame, preamble (first request only), frame written,
\* length read, body read, envelope parsed, response returned with the
\* connection and the State, and a request that succeeds has taken them all;
\* nothing is read while the writes are pending, some of their bytes written
\* or none, and from the first read on the whole frame is the latest write on
\* the socket;
\* when anything of a request is on the socket its message id and sequence
\* number are taken.
C21_RequestStepsInOrder ==
    /\ IsPrefix(req.trace, RequestSteps(req.first))
    /\ (pc = "idle" /\ outcome = <<"Ok", "response">> /\ requests > 0 /\ ~panicked)
       => /\ req.trace = RequestSteps(req.first)
          /\ conn_owner = "caller"
          /\ state_owner = "caller"
    /\ pc \in {"read_len", "read_body", "parse"}
       => /\ Len(socket) > 0
          /\ socket[Len(socket)] = [what |-> "request", request |-> requests,
                                    of |-> req.payload, bytes |-> req.data,
                                    complete |-> TRUE]
          /\ req.first => /\ Len(socket) > 1
                          /\ socket[Len(socket) - 1].bytes = Preamble
                          /\ socket[Len(socket) - 1].request = requests
    /\ pc \in {"init", "request", "read_len"}
       => req.len = U32(0) /\ req.incoming = <<>> /\ req.response = <<>>
    /\ \A i \in 1..Len(socket) :
           socket[i].request = requests
           => /\ Len(issued) = requests
              /\ Len(seq_log) = requests
              /\ state.last_msg_id = issued[requests]
              /\ last_call.op = "create_message"

\* A request after the first has returned a response: every step but the
\* preamble was taken.
C21_Witness ==
    /\ requests = 2
    /\ completed = 2
    /\ pc = "idle"
    /\ outcome = <<"Ok", "response">>
    /\ ~req.first
    /\ req.payload # <<>>
    /\ req.trace = RequestSteps(FALSE)

\* The count that was sent is more than the elements that were sent whole.
CountExceeds(v) == v.cut \/ ULt32(U32(Len(v.elements)), v.count)

\* C22, as stated: reading a boxed vector after a constructor id that is not
\* 0x1cb5c415 fails with InvalidConstructorId, and reading a vector whose
\* count is more than the elements that follow fails.
C22_InvalidConstructorId ==
    tl_pc = "received"
    => /\ (tl_value.kind = "Vector" /\ tl_value.id # TYPE_ID)
              => tl_result = <<"Err", "InvalidConstructorId">>
       /\ ((tl_value.kind = "BareVector" \/ tl_value.id = TYPE_ID)
           /\ CountExceeds(tl_value))
              => tl_result[1] = "Err"

\* What does hold: after another constructor id the error is InvalidData,
\* whatever follows the id (bytes that end before the count included, which
\* would give an Io error had the count been read); a count that is more than
\* the elements that follow gives an error, and any other count the vector of
\* that many elements.
C22_InvalidDataAndShortRead ==
    tl_pc = "received"
    => IF tl_value.kind = "Vector" /\ tl_value.id # TYPE_ID
       THEN tl_result = <<"Err", "InvalidData">>
       ELSE IF CountExceeds(tl_value)
       THEN tl_result = <<"Err", "Io">>
       ELSE tl_result =
                <<"Ok", [kind |-> tl_value.kind,
                         elements |-> SubSeq(tl_value.elements, 1,
                                             read_u32(tl_value.count))]>>

(***************************************************************************)
(* What the State operations leave alone.                                  *)
(***************************************************************************)

StateFields ==
    {"id", "auth_raw_key", "time_offset", "salt", "seq_no", "last_msg_id", "version"}

\* The fields of the State that the latest operation changed.
Changed == {f \in StateFields : state[f] # last_call.pre[f]}

\* C23: get_new_msg_id and update_message_id change last_msg_id alone,
\* next_seq_no(NonContent) changes nothing, next_seq_no(Content) changes the
\* sequence counter alone, update_time_offset changes time_offset and
\* last_msg_id alone (and create_message last_msg_id and the counter alone);
\* no operation changes the session id, the salt, the auth key or the version.
C23_FrameConditions ==
    last_call.op # "none"
    => /\ Changed \cap {"id", "salt", "auth_raw_key", "version"} = {}
       /\ last_call.op \in {"get_new_msg_id", "update_message_id"}
              => Changed \subseteq {"last_msg_id"}
       /\ (last_call.op = "next_seq_no" /\ last_call.args[1] = "NonContent")
              => Changed = {}
       /\ (last_call.op = "next_seq_no" /\ last_call.args[1] = "Content")
              => Changed \subseteq {"seq_no"}
       /\ last_call.op = "update_time_offset"
              => Changed \subseteq {"time_offset", "last_msg_id"}
       /\ last_call.op = "create_message"
              => Changed \subseteq {"last_msg_id", "seq_no"}

\* next_seq_no(NonContent) on a State whose time offset, last message id and
\* sequence counter are no longer those of State::new.
C23_Witness ==
    /\ last_call.op = "next_seq_no"
    /\ last_call.args[1] = "NonContent"
    /\ ~panicked
    /\ state = last_call.pre
    /\ state.seq_no # U32(0)
    /\ state.last_msg_id # I64(0)
    /\ state.time_offset # I32(0)

====
